---- MODULE Spec2Model ----
(***************************************************************************)
(* A model of app.py, the LinkedIn job-insights page: one run of main()    *)
(* for one submitted search, the browser session it opens, the three       *)
(* best-effort extractions and the rendering of the record.                *)
(*                                                                         *)
(* Texts on which the program computes character by character (the         *)
(* keyword, the location, the URL, the job count, the metadata of a job    *)
(* card) are sequences of one-character strings.  Company names, which the *)
(* program only compares and tests for emptiness, are strings.             *)
(***************************************************************************)
EXTENDS Integers, Sequences, FiniteSets, TLC

(***************************************************************************)
(* Characters                                                              *)
(***************************************************************************)

\* The printable ASCII characters in code order, chr(32) .. chr(126); the
\* grave accent, chr(96), is written "<grave>".
Printable ==
    <<" ", "!", "\"", "#", "$", "%", "&", "'", "(", ")", "*", "+", ",", "-", ".", "/", "0",
    "1", "2", "3", "4", "5", "6", "7", "8", "9", ":", ";", "<", "=", ">", "?", "@", "A", "B",
    "C", "D", "E", "F", "G", "H", "I", "J", "K", "L", "M", "N", "O", "P", "Q", "R", "S", "T",
    "U", "V", "W", "X", "Y", "Z", "[", "\\", "]", "^", "_", "<grave>", "a", "b", "c", "d", "e", "f",
    "g", "h", "i", "j", "k", "l", "m", "n", "o", "p", "q", "r", "s", "t", "u", "v", "w", "x",
    "y", "z", "{", "|", "}", "~">>

UpperCase ==
    <<"A", "B", "C", "D", "E", "F", "G", "H", "I", "J", "K", "L", "M", "N", "O", "P", "Q",
    "R", "S", "T", "U", "V", "W", "X", "Y", "Z">>

LowerCase ==
    <<"a", "b", "c", "d", "e", "f", "g", "h", "i", "j", "k", "l", "m", "n", "o", "p", "q",
    "r", "s", "t", "u", "v", "w", "x", "y", "z">>

Digits == <<"0", "1", "2", "3", "4", "5", "6", "7", "8", "9">>

HexDigits ==
    <<"0", "1", "2", "3", "4", "5", "6", "7", "8", "9", "A", "B", "C", "D", "E", "F">>

Range(s) == {s[i] : i \in 1..Len(s)}

IndexOf(c, s) == CHOOSE i \in 1..Len(s) : s[i] = c

\* ord(c) of a printable ASCII character.
Ord(c) == 31 + IndexOf(c, Printable)

\* str.lower() on one character.
LowerChar(c) == IF c \in Range(UpperCase) THEN LowerCase[IndexOf(c, UpperCase)] ELSE c

\* str.lower()
Lower(s) == [i \in 1..Len(s) |-> LowerChar(s[i])]

\* sub in s, for two texts
Contains(s, sub) ==
    \E i \in 0..(Len(s) - Len(sub)) : SubSeq(s, i + 1, i + Len(sub)) = sub

\* The white space str.strip() removes, among the printable characters.
IsSpace(c) == c = " "

RECURSIVE LStrip(_)
LStrip(s) == IF s # <<>> /\ IsSpace(Head(s)) THEN LStrip(Tail(s)) ELSE s

RECURSIVE RStrip(_)
RStrip(s) ==
    IF s # <<>> /\ IsSpace(s[Len(s)]) THEN RStrip(SubSeq(s, 1, Len(s) - 1)) ELSE s

\* str.strip()
Strip(s) == RStrip(LStrip(s))

\* str(n) of a one-digit number
Str(n) == <<Digits[n + 1]>>

(***************************************************************************)
(* URL Builder: generate_linkedin_url and urllib.parse.urlencode           *)
(***************************************************************************)

base_url ==
    <<"h", "t", "t", "p", "s", ":", "/", "/", "w", "w", "w", ".", "l", "i", "n", "k", "e",
    "d", "i", "n", ".", "c", "o", "m", "/", "j", "o", "b", "s", "/", "s", "e", "a", "r", "c",
    "h", "/">>

K_keywords == <<"k", "e", "y", "w", "o", "r", "d", "s">>
K_location == <<"l", "o", "c", "a", "t", "i", "o", "n">>
K_position == <<"p", "o", "s", "i", "t", "i", "o", "n">>
K_pageNum == <<"p", "a", "g", "e", "N", "u", "m">>

\* The characters urllib.parse.quote never escapes.
AlwaysSafe == Range(UpperCase) \cup Range(LowerCase) \cup Range(Digits) \cup {"_", ".", "-", "~"}

\* "%XX" of one byte
PercentHex(n) == <<"%", HexDigits[(n \div 16) + 1], HexDigits[(n % 16) + 1]>>

\* A variant of QuoteChar that takes "+" for a safe character.
QuoteCharPlusSafe(c) ==
    IF c = " " THEN <<"+">>
    ELSE IF c \in AlwaysSafe \cup {"+"} THEN <<c>>
    ELSE PercentHex(Ord(c))

\* quote_plus on one character: a space becomes "+", a safe character stays,
\* every other character becomes the "%XX" of its byte.
QuoteChar(c) ==
    IF c = " " THEN <<"+">>
    ELSE IF c \in AlwaysSafe THEN <<c>>
    ELSE PercentHex(Ord(c))

RECURSIVE quote_plus(_)
quote_plus(s) == IF s = <<>> THEN <<>> ELSE QuoteChar(Head(s)) \o quote_plus(Tail(s))

\* urlencode of a dict given as the sequence of its (key, value) items, in
\* insertion order: quote_plus(key) = quote_plus(value), joined by "&".
RECURSIVE urlencode(_)
urlencode(params) ==
    IF params = <<>> THEN <<>>
    ELSE quote_plus(params[1][1]) \o <<"=">> \o quote_plus(params[1][2])
         \o (IF Len(params) > 1 THEN <<"&">> ELSE <<>>)
         \o urlencode(Tail(params))

generate_linkedin_url(kw, loc) ==
    LET params == << <<K_keywords, kw>>,
                     <<K_location, loc>>,
                     <<K_position, Str(1)>>,
                     <<K_pageNum, Str(0)>> >>
    IN  base_url \o <<"?">> \o urlencode(params)

(***************************************************************************)
(* Reading a URL back: the query string of a URL, and what                 *)
(* urllib.parse.parse_qs makes of it.                                      *)
(***************************************************************************)

\* The text before / after the first occurrence of c (all of s / nothing, if
\* there is none): str.partition.
Before(s, c) ==
    IF c \in Range(s)
    THEN SubSeq(s, 1, (CHOOSE i \in 1..Len(s) : s[i] = c /\ \A j \in 1..(i-1) : s[j] # c) - 1)
    ELSE s

After(s, c) ==
    IF c \in Range(s)
    THEN SubSeq(s, (CHOOSE i \in 1..Len(s) : s[i] = c /\ \A j \in 1..(i-1) : s[j] # c) + 1, Len(s))
    ELSE <<>>

\* s.split(c)
RECURSIVE Split(_, _)
Split(s, c) == IF c \in Range(s) THEN <<Before(s, c)>> \o Split(After(s, c), c) ELSE <<s>>

IsHex(c) == c \in Range(HexDigits) \cup {"a", "b", "c", "d", "e", "f"}

HexVal(c) ==
    IF c \in Range(HexDigits) THEN IndexOf(c, HexDigits) - 1
    ELSE IndexOf(c, <<"a", "b", "c", "d", "e", "f">>) + 9

\* The character of a decoded byte; a byte that is no printable ASCII
\* character is shown as "<?>".
Chr(n) == IF n \in 32..126 THEN Printable[n - 31] ELSE "<?>"

\* urllib.parse.unquote_plus: "+" is a space, "%XX" is the byte XX, a "%"
\* that two hex digits do not follow stays.
RECURSIVE unquote_plus(_)
unquote_plus(s) ==
    IF s = <<>> THEN <<>>
    ELSE IF s[1] = "+" THEN <<" ">> \o unquote_plus(Tail(s))
    ELSE IF s[1] = "%" /\ Len(s) >= 3 /\ IsHex(s[2]) /\ IsHex(s[3])
         THEN <<Chr(16 * HexVal(s[2]) + HexVal(s[3]))>> \o unquote_plus(SubSeq(s, 4, Len(s)))
    ELSE <<s[1]>> \o unquote_plus(Tail(s))

\* parse_qs(qs), as the sequence of (name, value) pairs it reads; a pair with
\* an empty value is dropped (keep_blank_values is False).
RECURSIVE ParsePairs(_)
ParsePairs(fields) ==
    IF fields = <<>> THEN <<>>
    ELSE LET f == Head(fields)
             name == unquote_plus(Before(f, "="))
             value == unquote_plus(After(f, "="))
         IN  (IF f = <<>> \/ value = <<>> THEN <<>> ELSE << <<name, value>> >>)
             \o ParsePairs(Tail(fields))

parse_qs(qs) == ParsePairs(Split(qs, "&"))

\* The values parse_qs gives for a name, in order.
RECURSIVE ValuesOf(_, _)
ValuesOf(pairs, name) ==
    IF pairs = <<>> THEN <<>>
    ELSE (IF pairs[1][1] = name THEN <<pairs[1][2]>> ELSE <<>>) \o ValuesOf(Tail(pairs), name)

\* urlsplit(u).query: what follows the first "?", up to a "#".
QueryOf(u) == After(Before(u, "#"), "?")

(***************************************************************************)
(* Python values                                                           *)
(***************************************************************************)

\* None, and a value that is not None.  A local variable that has not been
\* assigned yet is None here too: the program reads only `text` before it
\* may have been assigned.
None == <<>>
Some(x) == <<x>>
Val(o) == o[1]

Placeholder ==
    <<"D", "a", "t", "a", " ", "n", "o", "t", " ", "a", "v", "a", "i", "l", "a", "b", "l",
    "e">>

DefaultKeyword ==
    <<"P", "y", "t", "h", "o", "n", " ", "D", "e", "v", "e", "l", "o", "p", "e", "r">>

DefaultLocation == <<"I", "n", "d", "i", "a">>

\* The slice bound of the company list.
MaxCompanies == 10

(***************************************************************************)
(* State                                                                   *)
(***************************************************************************)
VARIABLES
    pc,                 \* where main() and the functions it has called stand
    keyword, location,  \* the two text inputs of the form
    proc,               \* the browser process: "none", "running", "quit"
    browser,            \* scrape_linkedin_jobs's browser: None or Some("driver")
    launches,           \* browser processes started
    loads,              \* calls of browser.get
    quits,              \* calls of browser.quit
    url,                \* scrape_linkedin_jobs's url (<<>> before it is built)
    loaded,             \* the URL browser.get was given (<<>> before)
    data,               \* scrape_linkedin_jobs's data: None or Some(record)
    job_cards_metadata, \* the texts of the elements find_elements returned
    examined,           \* elements of job_cards_metadata the loop has read
    text,               \* the loop's text: None (unbound) or Some(text)
    companies,          \* the texts of the subtitle elements found
    job_data,           \* main's job_data: None or Some(record)
    ui,                 \* what streamlit has been told to render, in order
    attempted,          \* the extractions begun
    failed,             \* the extractions that raised
    failure             \* why the search was abandoned, "none" if it was not

vars == <<pc, keyword, location, proc, browser, launches, loads, quits, url, loaded,
          data, job_cards_metadata, examined, text, companies, job_data, ui,
          attempted, failed, failure>>

session == <<proc, browser, launches, loads, quits>>
inputs == <<keyword, location>>
page == <<job_cards_metadata, examined, text, companies>>
history == <<attempted, failed, failure>>

Extractions == {"total_jobs", "work_types", "companies"}

\* configure_page and the form of main
configure_page == <<"title", "write:Discover job statistics and top hiring companies">>

Init ==
    /\ pc = "form"
    /\ keyword = DefaultKeyword
    /\ location = DefaultLocation
    /\ proc = "none"
    /\ browser = None
    /\ launches = 0
    /\ loads = 0
    /\ quits = 0
    /\ url = <<>>
    /\ loaded = <<>>
    /\ data = None
    /\ job_cards_metadata = <<>>
    /\ examined = 0
    /\ text = None
    /\ companies = <<>>
    /\ job_data = None
    /\ ui = configure_page \o <<"form:search_form">>
    /\ attempted = {}
    /\ failed = {}
    /\ failure = "none"

(***************************************************************************)
(* main: the form                                                          *)
(***************************************************************************)

\* The user fills in the two fields and presses "Search Jobs".
Submit(KW, LOC) ==
    /\ pc = "form"
    /\ \E kw \in KW, loc \in LOC :
         /\ keyword' = kw
         /\ location' = loc
    /\ pc' = "submitted"
    /\ UNCHANGED <<session, url, loaded, data, page, job_data, ui, history>>

\* if submitted: with st.spinner(...): scrape_linkedin_jobs(keyword, location),
\* which calls setup_browser
EnterScrape ==
    /\ pc = "submitted"
    /\ ui' = Append(ui, "spinner:Scraping data from LinkedIn...")
    /\ pc' = "install"
    /\ UNCHANGED <<inputs, session, url, loaded, data, page, job_data, history>>

(***************************************************************************)
(* setup_browser                                                           *)
(***************************************************************************)

\* except Exception as e: st.error(...); return None
SetupExcept(cause) ==
    /\ ui' = Append(ui, "error:Browser setup failed")
    /\ browser' = None
    /\ failure' = cause
    /\ pc' = "check_browser"

\* Service(ChromeDriverManager().install())
InstallOk ==
    /\ pc = "install"
    /\ pc' = "launch"
    /\ UNCHANGED <<inputs, session, url, loaded, data, page, job_data, ui, history>>

InstallFail ==
    /\ pc = "install"
    /\ SetupExcept("install")
    /\ UNCHANGED <<inputs, proc, launches, loads, quits, url, loaded, data, page, job_data,
                   attempted, failed>>

\* webdriver.Chrome(service=service, options=chrome_options)
LaunchOk ==
    /\ pc = "launch"
    /\ proc' = "running"
    /\ launches' = launches + 1
    /\ pc' = "set_timeout"
    /\ UNCHANGED <<inputs, browser, loads, quits, url, loaded, data, page, job_data, ui,
                   history>>

LaunchFail ==
    /\ pc = "launch"
    /\ SetupExcept("launch")
    /\ UNCHANGED <<inputs, proc, launches, loads, quits, url, loaded, data, page, job_data,
                   attempted, failed>>

\* browser.set_page_load_timeout(60); return browser
SetTimeoutOk ==
    /\ pc = "set_timeout"
    /\ browser' = Some("driver")
    /\ pc' = "check_browser"
    /\ UNCHANGED <<inputs, proc, launches, loads, quits, url, loaded, data, page, job_data,
                   ui, history>>

\* set_page_load_timeout raises: the handler returns None and the driver
\* that was started is dropped without quit.
SetTimeoutFail ==
    /\ pc = "set_timeout"
    /\ SetupExcept("set_timeout")
    /\ UNCHANGED <<inputs, proc, launches, loads, quits, url, loaded, data, page, job_data,
                   attempted, failed>>

(***************************************************************************)
(* scrape_linkedin_jobs: the session                                       *)
(***************************************************************************)

\* if not browser: return None
CheckBrowser ==
    /\ pc = "check_browser"
    /\ IF browser = None
       THEN /\ job_data' = None
            /\ pc' = "returned"
       ELSE /\ job_data' = job_data
            /\ pc' = "get"
    /\ UNCHANGED <<inputs, session, url, loaded, data, page, ui, history>>

\* except Exception as e: st.error(f"Scraping failed: {e}"); return None
\* (the finally clause runs next)
ScrapeExcept(cause) ==
    /\ ui' = Append(ui, "error:Scraping failed")
    /\ failure' = cause
    /\ pc' = "finally_none"

\* url = generate_linkedin_url(keyword, location); browser.get(url)
GetOk ==
    /\ pc = "get"
    /\ url' = generate_linkedin_url(keyword, location)
    /\ loaded' = url'
    /\ loads' = loads + 1
    /\ pc' = "wait"
    /\ UNCHANGED <<inputs, proc, browser, launches, quits, data, page, job_data, ui,
                   history>>

\* browser.get raises (the page-load timeout, a network error)
GetFail ==
    /\ pc = "get"
    /\ url' = generate_linkedin_url(keyword, location)
    /\ loads' = loads + 1
    /\ ScrapeExcept("load")
    /\ UNCHANGED <<inputs, proc, browser, launches, quits, loaded, data, page, job_data,
                   attempted, failed>>

\* WebDriverWait(browser, 30).until(readyState == "complete")
WaitOk ==
    /\ pc = "wait"
    /\ pc' = "build"
    /\ UNCHANGED <<inputs, session, url, loaded, data, page, job_data, ui, history>>

\* A wait whose TimeoutException is swallowed: the scrape goes on.
WaitTimeoutIgnored ==
    /\ pc = "wait"
    /\ failure' = "wait"
    /\ pc' = "build"
    /\ UNCHANGED <<inputs, session, url, loaded, data, page, job_data, ui, attempted, failed>>

\* the wait raises TimeoutException
WaitTimeout ==
    /\ pc = "wait"
    /\ ScrapeExcept("wait")
    /\ UNCHANGED <<inputs, session, url, loaded, data, page, job_data, attempted, failed>>

(***************************************************************************)
(* scrape_linkedin_jobs: the record and the three extractions              *)
(***************************************************************************)

\* A record whose salary_range is left empty.
NewDataNoSalary(u) ==
    [total_jobs |-> Placeholder,
     salary_range |-> <<>>,
     work_types |-> [Onsite |-> 0, Remote |-> 0, Hybrid |-> 0],
     companies |-> <<>>,
     search_url |-> u]

\* data = {...}
NewData(u) ==
    [total_jobs |-> Placeholder,
     salary_range |-> Placeholder,
     work_types |-> [Onsite |-> 0, Remote |-> 0, Hybrid |-> 0],
     companies |-> <<>>,
     search_url |-> u]

Build ==
    /\ pc = "build"
    /\ data' = Some(NewData(url))
    /\ pc' = "job_count"
    /\ UNCHANGED <<inputs, session, url, loaded, page, job_data, ui, history>>

\* total_jobs_elem = browser.find_element(...);
\* data["total_jobs"] = total_jobs_elem.text.strip()
JobCountOk(TJ) ==
    /\ pc = "job_count"
    /\ \E t \in TJ : data' = Some([Val(data) EXCEPT !.total_jobs = Strip(t)])
    /\ attempted' = attempted \cup {"total_jobs"}
    /\ pc' = "work_types"
    /\ UNCHANGED <<inputs, session, url, loaded, page, job_data, ui, failed, failure>>

\* The element is absent, or reading it raises: except: pass
JobCountFail ==
    /\ pc = "job_count"
    /\ attempted' = attempted \cup {"total_jobs"}
    /\ failed' = failed \cup {"total_jobs"}
    /\ pc' = "work_types"
    /\ UNCHANGED <<inputs, session, url, loaded, data, page, job_data, ui, failure>>

\* A handler of the work-type extraction that leaves the function with the
\* record instead of going on to the companies.
WorkTypesAbort ==
    /\ failed' = failed \cup {"work_types"}
    /\ pc' = "finally_data"

\* except Exception as e: print("Work type scraping error:", e)
WorkTypesExcept ==
    /\ failed' = failed \cup {"work_types"}
    /\ pc' = "companies"

\* job_cards_metadata = browser.find_elements(...)
FindMetadataOk(ML) ==
    /\ pc = "work_types"
    /\ \E l \in ML : job_cards_metadata' = l
    /\ attempted' = attempted \cup {"work_types"}
    /\ pc' = "loop"
    /\ UNCHANGED <<inputs, session, url, loaded, data, examined, text, companies, job_data,
                   ui, failed, failure>>

FindMetadataFail ==
    /\ pc = "work_types"
    /\ attempted' = attempted \cup {"work_types"}
    /\ WorkTypesExcept
    /\ UNCHANGED <<inputs, session, url, loaded, data, page, job_data, ui, failure>>

\* for meta in job_cards_metadata: text = meta.text.lower()
LoopStep ==
    /\ pc = "loop"
    /\ examined < Len(job_cards_metadata)
    /\ text' = Some(Lower(job_cards_metadata[examined + 1]))
    /\ examined' = examined + 1
    /\ UNCHANGED <<pc, inputs, session, url, loaded, data, job_cards_metadata, companies,
                   job_data, ui, history>>

\* meta.text raises (the element went stale)
LoopFail ==
    /\ pc = "loop"
    /\ examined < Len(job_cards_metadata)
    /\ WorkTypesExcept
    /\ UNCHANGED <<inputs, session, url, loaded, data, page, job_data, ui, attempted,
                   failure>>

LoopEnd ==
    /\ pc = "loop"
    /\ examined = Len(job_cards_metadata)
    /\ pc' = "classify"
    /\ UNCHANGED <<inputs, session, url, loaded, data, page, job_data, ui, history>>

Word_remote == <<"r", "e", "m", "o", "t", "e">>
Word_on_site == <<"o", "n", "-", "s", "i", "t", "e">>
Word_onsite == <<"o", "n", "s", "i", "t", "e">>
Word_hybrid == <<"h", "y", "b", "r", "i", "d">>

\* The category the if / elif chain puts a lower-cased text in, "" for none.
Category(t) ==
    IF Contains(t, Word_remote) THEN "Remote"
    ELSE IF Contains(t, Word_on_site) \/ Contains(t, Word_onsite) THEN "Onsite"
    ELSE IF Contains(t, Word_hybrid) THEN "Hybrid"
    ELSE ""

Incr(wt, c) == IF c = "" THEN wt ELSE [wt EXCEPT ![c] = @ + 1]

\* Three independent tests in place of the if / elif chain.
TallyEachWord(wt, t) ==
    LET a == IF Contains(t, Word_remote) THEN Incr(wt, "Remote") ELSE wt
        b == IF Contains(t, Word_on_site) \/ Contains(t, Word_onsite)
             THEN Incr(a, "Onsite") ELSE a
    IN  IF Contains(t, Word_hybrid) THEN Incr(b, "Hybrid") ELSE b

\* if "remote" in text: ... elif ...: ... elif ...: ...
Tally(wt, t) == Incr(wt, Category(t))

\* The if / elif chain, which stands after the loop: it reads the text the
\* last iteration left, and raises NameError if the loop never ran.
Classify ==
    /\ pc = "classify"
    /\ IF text = None
       THEN /\ WorkTypesExcept
            /\ data' = data
       ELSE /\ data' = Some([Val(data) EXCEPT !.work_types = Tally(@, Val(text))])
            /\ failed' = failed
            /\ pc' = "companies"
    /\ UNCHANGED <<inputs, session, url, loaded, page, job_data, ui, attempted, failure>>

(***************************************************************************)
(* Company extraction                                                      *)
(***************************************************************************)

Min(a, b) == IF a < b THEN a ELSE b

\* {c.text for c in companies if c.text}
TextSet(elems) == {elems[i] : i \in {j \in 1..Len(elems) : elems[j] # ""}}

\* The members of TextSet(elems), each once, as they first occur in elems.
RECURSIVE FirstSeen(_, _)
FirstSeen(elems, seen) ==
    IF elems = <<>> THEN <<>>
    ELSE IF Head(elems) = "" \/ Head(elems) \in seen THEN FirstSeen(Tail(elems), seen)
    ELSE <<Head(elems)>> \o FirstSeen(Tail(elems), seen \cup {Head(elems)})

Rotate(s, r) == [i \in 1..Len(s) |-> s[((i + r - 1) % Len(s)) + 1]]

Reverse(s) == [i \in 1..Len(s) |-> s[Len(s) + 1 - i]]

\* list(S) for the set S of the texts: the set's iteration order depends on
\* the strings' hashes, which differ from run to run.  The orders taken here
\* are the rotations of the order of first occurrence and their reversals
\* (every order, for up to three texts).
ListOrders(elems) ==
    LET d == FirstSeen(elems, {})
    IN  {Rotate(d, r) : r \in 0..(Len(d) - 1)}
        \cup {Reverse(Rotate(d, r)) : r \in 0..(Len(d) - 1)}
        \cup {d}

\* A list comprehension where the source has a set comprehension: the texts
\* are not de-duplicated.
CompanyListsNoDedup(elems) ==
    LET l == SelectSeq(elems, LAMBDA x : x # "")
    IN  {SubSeq(l, 1, Min(Len(l), MaxCompanies))}

\* The values list({c.text for c in companies if c.text})[:10] can take.
CompanyLists(elems) ==
    {SubSeq(l, 1, Min(Len(l), MaxCompanies)) : l \in ListOrders(elems)}

\* time.sleep(2); browser.execute_script(scroll); time.sleep(2);
\* companies = browser.find_elements(...); data["companies"] = ...; return data
CompaniesOk(SL) ==
    /\ pc = "companies"
    /\ \E elems \in SL :
         /\ companies' = elems
         /\ \E l \in CompanyLists(elems) :
              data' = Some([Val(data) EXCEPT !.companies = l])
    /\ attempted' = attempted \cup {"companies"}
    /\ pc' = "finally_data"
    /\ UNCHANGED <<inputs, session, url, loaded, job_cards_metadata, examined, text,
                   job_data, ui, failed, failure>>

\* the scroll, the lookup or reading a text raises: except: pass; return data
CompaniesFail ==
    /\ pc = "companies"
    /\ attempted' = attempted \cup {"companies"}
    /\ failed' = failed \cup {"companies"}
    /\ pc' = "finally_data"
    /\ UNCHANGED <<inputs, session, url, loaded, data, page, job_data, ui, failure>>

(***************************************************************************)
(* scrape_linkedin_jobs: finally, and the return                           *)
(***************************************************************************)

\* The value of the return statement that led to the finally clause.
Returned == IF pc = "finally_data" THEN data ELSE None

\* finally: try: browser.quit()
QuitOk ==
    /\ pc \in {"finally_data", "finally_none"}
    /\ proc' = "quit"
    /\ quits' = quits + 1
    /\ job_data' = Returned
    /\ pc' = "returned"
    /\ UNCHANGED <<inputs, browser, launches, loads, url, loaded, data, page, ui, history>>

\* browser.quit() raises: except: pass
QuitFail ==
    /\ pc \in {"finally_data", "finally_none"}
    /\ quits' = quits + 1
    /\ job_data' = Returned
    /\ pc' = "returned"
    /\ UNCHANGED <<inputs, proc, browser, launches, loads, url, loaded, data, page, ui,
                   history>>

(***************************************************************************)
(* display_results and the end of main                                     *)
(***************************************************************************)

\* A dict is false when it is empty and None is false; the record has five keys.
Truthy(d) == d # None

\* display_results with the test of the company list inverted.
display_results_inverted(jd, kw) ==
    IF ~Truthy(jd) THEN <<"error:No data found.">>
    ELSE <<"subheader:Job Market Overview",
           "metric:Total Jobs", "metric:Salary Range",
           "write:Work Types", "write:Onsite", "write:Remote", "write:Hybrid",
           "subheader:Work Type Distribution", "plotly_chart:pie",
           "subheader:Top Hiring Companies">>
         \o (IF Val(jd).companies = <<>>
             THEN <<"plotly_chart:bar">>
             ELSE <<"write:No company data found.">>)
         \o <<"markdown:View Jobs on LinkedIn",
              "subheader:Conclusion", "markdown:conclusion">>

\* What display_results(job_data, keyword) renders, in order.
display_results(jd, kw) ==
    IF ~Truthy(jd) THEN <<"error:No data found.">>
    ELSE <<"subheader:Job Market Overview",
           "metric:Total Jobs", "metric:Salary Range",
           "write:Work Types", "write:Onsite", "write:Remote", "write:Hybrid",
           "subheader:Work Type Distribution", "plotly_chart:pie",
           "subheader:Top Hiring Companies">>
         \o (IF Val(jd).companies # <<>>
             THEN <<"plotly_chart:bar">>
             ELSE <<"write:No company data found.">>)
         \o <<"markdown:View Jobs on LinkedIn",
              "subheader:Conclusion", "markdown:conclusion">>

\* A main that tries the scrape a second time when it got no record.
MainBranchRetry ==
    /\ pc = "returned"
    /\ IF Truthy(job_data)
       THEN /\ pc' = "display"
            /\ ui' = ui
       ELSE IF launches < 2
       THEN /\ pc' = "install"
            /\ ui' = ui
       ELSE /\ pc' = "failed"
            /\ ui' = Append(ui, "error:Could not retrieve data.")
    /\ UNCHANGED <<inputs, session, url, loaded, data, page, job_data, history>>

\* if job_data: ... else: st.error("Could not retrieve data.")
MainBranch ==
    /\ pc = "returned"
    /\ IF Truthy(job_data)
       THEN /\ pc' = "display"
            /\ ui' = ui
       ELSE /\ pc' = "failed"
            /\ ui' = Append(ui, "error:Could not retrieve data.")
    /\ UNCHANGED <<inputs, session, url, loaded, data, page, job_data, history>>

\* display_results(job_data, keyword)
Display ==
    /\ pc = "display"
    /\ ui' = ui \o display_results(job_data, keyword)
    /\ pc' = "displayed"
    /\ UNCHANGED <<inputs, session, url, loaded, data, page, job_data, history>>

\* st.success("Done!")
Success ==
    /\ pc = "displayed"
    /\ ui' = Append(ui, "success:Done!")
    /\ pc' = "done"
    /\ UNCHANGED <<inputs, session, url, loaded, data, page, job_data, history>>

(***************************************************************************)
(* Inputs: what the user types and what the page holds                     *)
(***************************************************************************)

\* Bounds of the inputs.
MaxLen == 2
MaxMeta == 2
MaxSubtitles == 11

\* Characters of a typed text: a safe one, the space, and five that mean
\* something in a URL.
InputChars == {"a", " ", "+", "&", "=", "%", "?"}

TextsUpTo(n) == UNION {[1..k -> InputChars] : k \in 0..n}

KeywordsAll == TextsUpTo(MaxLen)
LocationsAll == {<<>>, DefaultLocation, <<"&", "=", "%", "+", " ", "?">>}
KeywordsFew == {DefaultKeyword, <<"C", "+", "+">>}
LocationsFew == {DefaultLocation}

\* Texts of the job-count element.
JobCountTexts == {<<" ", "1", ",", "0", "0", "0", "+", " ">>, <<>>}

\* Texts of a job card's metadata.
Meta_Remote == <<"R", "e", "m", "o", "t", "e">>
Meta_OnSite == <<"O", "n", "-", "s", "i", "t", "e">>
Meta_ONSITE == <<"O", "N", "S", "I", "T", "E">>
Meta_Hybrid == <<"H", "y", "b", "r", "i", "d">>
Meta_HybridRemote == <<"H", "y", "b", "r", "i", "d", "/", "R", "e", "m", "o", "t", "e">>
Meta_FullTime == <<"F", "u", "l", "l", "-", "t", "i", "m", "e">>
MetaTexts == {Meta_Remote, Meta_OnSite, Meta_ONSITE, Meta_Hybrid, Meta_HybridRemote,
              Meta_FullTime}

MetadataAll == UNION {[1..k -> MetaTexts] : k \in 0..MaxMeta}
MetadataFew == {<<>>, <<Meta_Remote>>, <<Meta_HybridRemote, Meta_OnSite>>,
                <<Meta_Hybrid, Meta_FullTime>>}

\* Texts of the subtitle elements.
CompanyNames == <<"Acme", "acme", "Globex", "Initech", "Umbrella", "Hooli", "Stark",
                  "Wayne", "Wonka", "Tyrell", "Cyberdyne", "Soylent", "Vandelay">>

\* n elements that show the first k company names in turn.
Cycle(n, k) == [i \in 1..n |-> CompanyNames[((i - 1) % k) + 1]]

SubtitlesAll ==
    {<<>>, <<"">>}
    \cup {Cycle(n, k) : n \in 1..MaxSubtitles, k \in 1..Min(MaxSubtitles, Len(CompanyNames))}
    \cup {<<"">> \o Cycle(n, n) \o <<"">> : n \in 1..Min(MaxSubtitles, Len(CompanyNames))}
SubtitlesFew == {<<>>, <<"Acme">>, <<"Acme", "", "acme", "Acme">>}

(***************************************************************************)
(* Specifications                                                          *)
(***************************************************************************)

\* One search, with the inputs drawn from the given sets.
Search(KW, LOC, ML, SL) ==
    \/ Submit(KW, LOC)
    \/ EnterScrape
    \/ InstallOk
    \/ InstallFail
    \/ LaunchOk
    \/ LaunchFail
    \/ SetTimeoutOk
    \/ SetTimeoutFail
    \/ CheckBrowser
    \/ GetOk
    \/ GetFail
    \/ WaitOk
    \/ WaitTimeout
    \/ Build
    \/ JobCountOk(JobCountTexts)
    \/ JobCountFail
    \/ FindMetadataOk(ML)
    \/ FindMetadataFail
    \/ LoopStep
    \/ LoopFail
    \/ LoopEnd
    \/ Classify
    \/ CompaniesOk(SL)
    \/ CompaniesFail
    \/ QuitOk
    \/ QuitFail
    \/ MainBranch
    \/ Display
    \/ Success

\* A search of a page with few cards.
Next == Search(KeywordsFew, LocationsFew, MetadataFew, SubtitlesFew)
Spec == Init /\ [][Next]_vars

\* Every keyword and location within the bounds.
NextUrl == Search(KeywordsAll, LocationsAll, {<<Meta_Remote>>}, {<<"Acme">>})
SpecUrl == Init /\ [][NextUrl]_vars

\* Every list of metadata texts within the bound.
NextTally == Search({DefaultKeyword}, LocationsFew, MetadataAll, {<<"Acme">>})
SpecTally == Init /\ [][NextTally]_vars

\* The lists of subtitle texts within the bound.
NextCompanies == Search({DefaultKeyword}, LocationsFew, {<<Meta_Remote>>}, SubtitlesAll)
SpecCompanies == Init /\ [][NextCompanies]_vars

(***************************************************************************)
(* Properties                                                              *)
(***************************************************************************)

\* The positions at which scrape_linkedin_jobs has returned to main.
AfterScrape == {"returned", "display", "failed", "displayed", "done"}

Shown(w) == w \in Range(ui)

\* What display_results renders of a record.
Metrics == {"metric:Total Jobs", "metric:Salary Range", "write:Onsite", "write:Remote",
            "write:Hybrid"}
Charts == {"plotly_chart:pie", "plotly_chart:bar"}

\* C1: every browser that was launched has had browser.quit called on it by
\* the time scrape_linkedin_jobs has returned, whatever the exit path.
C1_LaunchedBrowserIsQuit ==
    pc \in AfterScrape => quits >= launches

\* The field an extraction step may write.
FieldAt(p) ==
    CASE p = "job_count" -> "total_jobs"
      [] p \in {"work_types", "loop", "classify"} -> "work_types"
      [] p = "companies" -> "companies"
      [] OTHER -> "none"

DefaultOf(f) == NewData(url)[f]

C2_Returned ==
    (failure = "none" /\ pc \in AfterScrape) =>
        /\ job_data # None
        /\ job_data = data
        /\ attempted = Extractions

C2_FailedKeepsDefault ==
    data # None => \A f \in failed : Val(data)[f] = DefaultOf(f)

C2_OwnFieldOnly ==
    (data # None /\ data' # None) =>
        \A f \in Extractions : Val(data')[f] # Val(data)[f] => f = FieldAt(pc)

\* C2: once the page is ready, scrape_linkedin_jobs returns the record, all
\* three extractions are attempted, an extraction that failed leaves its own
\* field at its default, and a step of one extraction changes no field of
\* another.
C2_ExtractionsIndependent ==
    /\ [](C2_Returned /\ C2_FailedKeepsDefault)
    /\ [][C2_OwnFieldOnly]_vars

C2_Witness ==
    /\ pc = "returned"
    /\ failed = {"work_types"}
    /\ job_data # None
    /\ Val(job_data).total_jobs # Placeholder
    /\ Val(job_data).companies # <<>>
    /\ Val(job_data).work_types = [Onsite |-> 0, Remote |-> 0, Hybrid |-> 0]

\* C3: when the browser setup, the page load or the readiness wait fails,
\* scrape_linkedin_jobs returns None without attempting an extraction, and
\* main shows "Could not retrieve data." and no metric, chart or "Done!".
C3_AbortedSearch ==
    failure # "none" =>
        /\ data = None
        /\ attempted = {}
        /\ pc \notin {"display", "displayed", "done"}
        /\ pc \in AfterScrape => job_data = None
        /\ pc = "failed" =>
             /\ Shown("error:Could not retrieve data.")
             /\ Range(ui) \cap (Metrics \cup Charts \cup {"success:Done!"}) = {}

C3_Witness ==
    /\ pc = "failed"
    /\ failure = "wait"
    /\ loaded # <<>>

\* The state of the search at a position of the program.
Phase(p) ==
    CASE p = "form" -> "Idle"
      [] p = "submitted" -> "Submitted"
      [] p \in {"display", "displayed", "done"} -> "Displaying"
      [] p = "failed" -> "Failed"
      [] OTHER -> "Scraping"

C4_Step ==
    Phase(pc') # Phase(pc) =>
        \/ Phase(pc) = "Idle" /\ Phase(pc') = "Submitted"
        \/ Phase(pc) = "Submitted" /\ Phase(pc') = "Scraping"
        \/ Phase(pc) = "Scraping" /\ Phase(pc') = "Displaying" /\ job_data # None
        \/ Phase(pc) = "Scraping" /\ Phase(pc') = "Failed"

\* C4: a search goes Idle -> Submitted -> Scraping -> Displaying | Failed and
\* never back; Failed and Displaying are entered from Scraping only,
\* Displaying only with a record; the browser is launched and the page
\* loaded at most once.
C4_LinearProgression ==
    /\ [](launches <= 1 /\ loads <= 1)
    /\ [][C4_Step]_vars

C4_Witness ==
    /\ pc = "done"
    /\ launches = 1
    /\ loads = 1

TallySum(wt) == wt.Onsite + wt.Remote + wt.Hybrid

\* C5: every count of work_types is >= 0 and the three counts sum to at most
\* the number of metadata elements examined; with no metadata element (an
\* empty list, or a lookup that raised) all three counts are 0.
C5_TallyBounded ==
    data # None =>
        LET wt == Val(data).work_types
        IN  /\ wt.Onsite >= 0 /\ wt.Remote >= 0 /\ wt.Hybrid >= 0
            /\ TallySum(wt) <= examined
            /\ examined <= Len(job_cards_metadata)
            /\ job_cards_metadata = <<>> =>
                 wt = [Onsite |-> 0, Remote |-> 0, Hybrid |-> 0]

C5_Witness ==
    /\ pc = "companies"
    /\ examined = 2
    /\ data # None
    /\ TallySum(Val(data).work_types) = 1

\* C6: the companies of the record are at most 10, pairwise different,
\* non-empty, each the text of a subtitle element, and exactly 10 when more
\* than 10 different non-empty texts exist.
C6_CompanyList ==
    data # None =>
        LET c == Val(data).companies
        IN  /\ Len(c) <= 10
            /\ \A i, j \in 1..Len(c) : c[i] = c[j] => i = j
            /\ \A i \in 1..Len(c) : c[i] # "" /\ c[i] \in Range(companies)
            /\ Cardinality({x \in Range(companies) : x # ""}) > 10 => Len(c) = 10

C6_Witness ==
    /\ pc = "returned"
    /\ job_data # None
    /\ Len(Val(job_data).companies) = 10
    /\ Cardinality(Range(companies)) > 10

\* C7: display_results renders the company bar chart exactly when the
\* company list is not empty and "No company data found." when it is empty;
\* the metrics, the pie chart, the link and the conclusion are rendered in
\* both cases.
C7_CompanyChart ==
    pc \in {"displayed", "done"} =>
        /\ Shown("plotly_chart:bar") <=> Val(job_data).companies # <<>>
        /\ Shown("write:No company data found.") <=> Val(job_data).companies = <<>>
        /\ Metrics \subseteq Range(ui)
        /\ Shown("plotly_chart:pie")
        /\ Shown("markdown:View Jobs on LinkedIn")
        /\ Shown("markdown:conclusion")

C7_Witness ==
    /\ pc = "displayed"
    /\ Val(job_data).companies = <<>>
    /\ Shown("write:No company data found.")

\* C8: the query string of the generated URL reads back as the keyword and
\* the location that were typed, when neither is empty, and as position=1
\* and pageNum=0; the record's search_url is the URL that was loaded.
C8_UrlRoundTrip ==
    url # <<>> =>
        LET q == parse_qs(QueryOf(url))
        IN  /\ (keyword # <<>> /\ location # <<>>) =>
                 /\ ValuesOf(q, K_keywords) = <<keyword>>
                 /\ ValuesOf(q, K_location) = <<location>>
            /\ ValuesOf(q, K_position) = <<Str(1)>>
            /\ ValuesOf(q, K_pageNum) = <<Str(0)>>
            /\ data # None => (Val(data).search_url = loaded /\ loaded # <<>>)

C8_Witness ==
    /\ keyword = <<"+", " ">>
    /\ location = <<"&", "=", "%", "+", " ", "?">>
    /\ pc = "returned"
    /\ job_data # None
    /\ Val(job_data).search_url = loaded

\* The metadata elements the if / elif chain puts in category c.
CardsIn(c) ==
    Cardinality({i \in 1..Len(job_cards_metadata) :
                   Category(Lower(job_cards_metadata[i])) = c})

\* C9: after the tally each category's count is the number of metadata
\* elements whose lower-cased text falls in that category.
C9_TallyCountsEveryCard ==
    (pc \in {"companies", "finally_data"} \cup AfterScrape
     /\ data # None /\ "work_types" \notin failed) =>
        \A c \in {"Remote", "Onsite", "Hybrid"} : Val(data).work_types[c] = CardsIn(c)

\* C10: salary_range of the record is always "Data not available", and so
\* is total_jobs when the job-count element is absent or reading it raised.
C10_Placeholders ==
    /\ data # None =>
         /\ Val(data).salary_range = Placeholder
         /\ "total_jobs" \in failed => Val(data).total_jobs = Placeholder
    /\ job_data # None =>
         /\ Val(job_data).salary_range = Placeholder
         /\ "total_jobs" \in failed => Val(job_data).total_jobs = Placeholder

C10_Witness ==
    /\ pc = "done"
    /\ "total_jobs" \in failed
    /\ Val(job_data).companies # <<>>
    /\ Val(job_data).salary_range = Placeholder

====
